---------------------------- MODULE Spec2Model ----------------------------
(***************************************************************************)
(* A model of src/matchingEngine.py: the ZMQHandler class (constructor,    *)
(* handle(), start(), stop()), the ZMQ SUB socket it reads and the asyncio *)
(* event loop that runs its callbacks.                                     *)
(*                                                                         *)
(* Byte strings are sequences of numbers 0..255.  Python text is a         *)
(* sequence of string chunks, so that '+' is \o.  The event loop follows   *)
(* asyncio's run_forever: each iteration polls for I/O (a frame for a      *)
(* pending receive, a signal), then runs the callbacks that were ready     *)
(* when the batch began, then leaves if loop.stop() was called.  A task    *)
(* runs from one await to the next without any other callback running.     *)
(***************************************************************************)
EXTENDS Integers, Sequences, FiniteSets, TLC

VARIABLES
  mainPc,       \* "init" (inside __init__), "idle", "running" (in run_forever), "exited"
  subscribed,   \* the SUBSCRIBE filters set on the socket, in the order applied
  connected,    \* zmqSubSocket.connect() has been called
  sockClosed,   \* zmqContext.destroy() has closed the socket
  sigHandler,   \* loop.add_signal_handler(SIGINT, self.stop) is registered
  loopStopping, \* the event loop's stop flag (set by loop.stop())
  loopPc,       \* "poll" or "run": the phase of the current loop iteration
  ntodo,        \* callbacks of the current batch still to run
  ready,        \* the loop's ready queue: task ids, and 0 for the stop callback
  current,      \* the task whose step is executing, 0 when none
  tasks,        \* the handle() tasks ever created, in creation order
  sockQueue,    \* frames that reached the socket and were not yet received
  arrived,      \* number of frames that reached the socket
  signals,      \* number of SIGINTs delivered to the loop
  stopCalls,    \* number of stop() calls made outside the loop
  stdoutBroken, \* the process's stdout no longer accepts writes
  log           \* the lines printed so far

vars == <<mainPc, subscribed, connected, sockClosed, sigHandler, loopStopping,
          loopPc, ntodo, ready, current, tasks, sockQueue, arrived, signals,
          stopCalls, stdoutBroken, log>>

---------------------------------------------------------------------------
(* Bounds of the model *)

MaxFrames == 2

MaxSignals == 2

MaxStopCalls == 2

(* Program constants *)

HeaderLen == 80

SeqLen == 4

---------------------------------------------------------------------------
(* Byte strings of the program *)

B_hashblock == <<104, 97, 115, 104, 98, 108, 111, 99, 107>>

B_hashtx == <<104, 97, 115, 104, 116, 120>>

B_rawblock == <<114, 97, 119, 98, 108, 111, 99, 107>>

B_rawtx == <<114, 97, 119, 116, 120>>

Topics == {B_hashblock, B_hashtx, B_rawblock, B_rawtx}

SubscribeOrder == <<B_hashblock, B_hashtx, B_rawblock, B_rawtx>>

IsPrefix(p, s) == Len(p) <= Len(s) /\ SubSeq(s, 1, Len(p)) = p

\* ZMQ's SUB filter: a frame is delivered when its first part starts with a
\* subscribed prefix.
Delivered(msg, subs) == \E i \in 1..Len(subs) : IsPrefix(subs[i], msg[1])

---------------------------------------------------------------------------
(* Pure functions of handle() *)

\* Variant: the same bytes read most significant first ('>I').
UnpackBE(b) == [hi |-> b[2] + 256 * b[1], lo |-> b[4] + 256 * b[3]]

\* struct.unpack('<I', b)[-1]: a Python int, kept as two 16-bit halves so
\* that the whole unsigned 32-bit range is representable.
UnpackLE(b) == [hi |-> b[3] + 256 * b[4], lo |-> b[1] + 256 * b[2]]

Digits == <<"0", "1", "2", "3", "4", "5", "6", "7", "8", "9">>

RECURSIVE Str(_)
\* str(n) for n >= 0: the decimal digits, most significant first.
Str(n) ==
  LET t == (n.hi % 10) * 65536 + n.lo
      q == [hi |-> n.hi \div 10, lo |-> t \div 10]
  IN  IF n.hi = 0 /\ n.lo < 10
        THEN <<Digits[n.lo + 1]>>
        ELSE Str(q) \o <<Digits[(t % 10) + 1]>>

\* Variant: the length test loosened to 'at least 4 bytes'.
SequenceOf_AtLeast(msg) ==
  IF Len(msg[Len(msg)]) >= SeqLen
    THEN Str(UnpackLE(msg[Len(msg)]))
    ELSE <<"Unknown">>

\* lines 38-41
SequenceOf(msg) ==
  IF Len(msg[Len(msg)]) = SeqLen
    THEN Str(UnpackLE(msg[Len(msg)]))
    ELSE <<"Unknown">>

HexChars == <<"0", "1", "2", "3", "4", "5", "6", "7",
              "8", "9", "a", "b", "c", "d", "e", "f">>

\* binascii.hexlify(b): two hex digits per byte, high nibble first.
Hexlify(b) ==
  [i \in 1..(2 * Len(b)) |->
     IF i % 2 = 1 THEN HexChars[(b[(i + 1) \div 2] \div 16) + 1]
                  ELSE HexChars[(b[i \div 2] % 16) + 1]]

\* print(bytes) writes the bytes' repr: b'...'
ReprBytes(h) == <<"b'">> \o h \o <<"'">>

\* body[:n]
Slice(body, n) == SubSeq(body, 1, IF Len(body) < n THEN Len(body) ELSE n)

\* Variant: the 80-byte cut applied to every topic.
Payload_TruncAll(topic, body) == Slice(body, HeaderLen)

\* the bytes hexlified for a topic: lines 44, 47, 50, 53
Payload(topic, body) ==
  IF topic = B_rawblock THEN Slice(body, HeaderLen) ELSE body

\* the header line printed for a topic: lines 43, 46, 49, 52
HeadLine(topic, sequence) ==
  CASE topic = B_hashblock -> <<"- HASH BLOCK (">> \o sequence \o <<") -">>
    [] topic = B_hashtx    -> <<"- HASH TX  (">> \o sequence \o <<") -">>
    [] topic = B_rawblock  -> <<"- RAW BLOCK HEADER (">> \o sequence \o <<") -">>
    [] topic = B_rawtx     -> <<"- RAW TX (">> \o sequence \o <<") -">>

\* the if/elif chain of lines 42-51: exact byte-string equality
Recognized(topic) == topic \in Topics

\* Variant: the newest queued frame first.
RecvMultipart_Last(q) ==
  [frame |-> q[Len(q)], rest |-> SubSeq(q, 1, Len(q) - 1)]

\* recv_multipart() on the socket: the oldest queued frame
RecvMultipart(q) == [frame |-> Head(q), rest |-> Tail(q)]

---------------------------------------------------------------------------
(* Frames the publisher may send *)

Ramp(n) == [i \in 1..n |-> i % 256]

B_hashtxx == B_hashtx \o <<120>>

\* The frames of the lifecycle model: three parts, two parts, a topic that
\* is none of the four, one part with and without a known topic.
Frames ==
  { <<B_rawblock, <<9, 8, 7>>, <<7, 0, 0, 0>>>>,
    <<B_hashblock, <<1, 2, 3, 4>>>>,
    <<B_hashtxx, <<1>>, <<1, 0, 0, 0>>>>,
    <<B_hashtx>>,
    <<B_hashtxx>> }

NewTask ==
  [pc |-> "new", msg |-> <<>>, idx |-> 0, topic |-> <<>>, body |-> <<>>,
   sequence |-> <<>>, err |-> "none", cause |-> "none"]

---------------------------------------------------------------------------
Init ==
  /\ mainPc = "init"
  /\ subscribed = <<>>
  /\ connected = FALSE
  /\ sockClosed = FALSE
  /\ sigHandler = FALSE
  /\ loopStopping = FALSE
  /\ loopPc = "poll"
  /\ ntodo = 0
  /\ ready = <<>>
  /\ current = 0
  /\ tasks = <<>>
  /\ sockQueue = <<>>
  /\ arrived = 0
  /\ signals = 0
  /\ stopCalls = 0
  /\ stdoutBroken = FALSE
  /\ log = <<>>

---------------------------------------------------------------------------
(* ZMQHandler.__init__ *)

\* lines 28-31: the four SUBSCRIBE options, in program order
Subscribe ==
  /\ mainPc = "init"
  /\ Len(subscribed) < Len(SubscribeOrder)
  /\ subscribed' = Append(subscribed, SubscribeOrder[Len(subscribed) + 1])
  /\ UNCHANGED <<mainPc, connected, sockClosed, sigHandler, loopStopping,
                 loopPc, ntodo, ready, current, tasks, sockQueue, arrived,
                 signals, stopCalls, stdoutBroken, log>>

\* Variant: the constructor also schedules the first handle().
Connect_AndReceive ==
  /\ mainPc = "init"
  /\ Len(subscribed) = Len(SubscribeOrder)
  /\ connected' = TRUE
  /\ mainPc' = "idle"
  /\ tasks' = Append(tasks, NewTask)
  /\ ready' = Append(ready, Len(tasks) + 1)
  /\ UNCHANGED <<subscribed, sockClosed, sigHandler, loopStopping, loopPc,
                 ntodo, current, sockQueue, arrived, signals, stopCalls,
                 stdoutBroken, log>>

\* Variant: connect placed before the last SUBSCRIBE, which is then lost.
Connect_BeforeLast ==
  /\ mainPc = "init"
  /\ Len(subscribed) = Len(SubscribeOrder) - 1
  /\ connected' = TRUE
  /\ mainPc' = "idle"
  /\ UNCHANGED <<subscribed, sockClosed, sigHandler, loopStopping, loopPc,
                 ntodo, ready, current, tasks, sockQueue, arrived, signals,
                 stopCalls, stdoutBroken, log>>

\* line 32: connect, the last statement of the constructor
Connect ==
  /\ mainPc = "init"
  /\ Len(subscribed) = Len(SubscribeOrder)
  /\ connected' = TRUE
  /\ mainPc' = "idle"
  /\ UNCHANGED <<subscribed, sockClosed, sigHandler, loopStopping, loopPc,
                 ntodo, ready, current, tasks, sockQueue, arrived, signals,
                 stopCalls, stdoutBroken, log>>

---------------------------------------------------------------------------
(* The environment: the publisher, the terminal, the operating system *)

\* A frame passes the socket's filters and is queued on the socket.
Arrive ==
  /\ connected
  /\ ~sockClosed
  /\ arrived < MaxFrames
  /\ \E msg \in Frames :
       /\ Delivered(msg, subscribed)
       /\ sockQueue' = Append(sockQueue, [idx |-> arrived + 1, msg |-> msg])
  /\ arrived' = arrived + 1
  /\ UNCHANGED <<mainPc, subscribed, connected, sockClosed, sigHandler,
                 loopStopping, loopPc, ntodo, ready, current, tasks, signals,
                 stopCalls, stdoutBroken, log>>

\* stdout is closed by its reader: every later print raises.
StdoutCloses ==
  /\ mainPc = "running"
  /\ ~stdoutBroken
  /\ stdoutBroken' = TRUE
  /\ UNCHANGED <<mainPc, subscribed, connected, sockClosed, sigHandler,
                 loopStopping, loopPc, ntodo, ready, current, tasks, sockQueue,
                 arrived, signals, stopCalls, log>>

---------------------------------------------------------------------------
(* ZMQHandler.start and ZMQHandler.stop *)

\* lines 58-60: register the signal handler, create the first handle() task,
\* enter run_forever
Start ==
  /\ mainPc = "idle"
  /\ sigHandler' = TRUE
  /\ tasks' = Append(tasks, NewTask)
  /\ ready' = Append(ready, Len(tasks) + 1)
  /\ mainPc' = "running"
  /\ loopPc' = "poll"
  /\ ntodo' = 0
  /\ UNCHANGED <<subscribed, connected, sockClosed, loopStopping, current,
                 sockQueue, arrived, signals, stopCalls, stdoutBroken, log>>

Pending(ts) == {t \in DOMAIN ts : ts[t].pc = "recv"}

\* Closing the socket may cancel the receive that is pending on it: the task
\* is then scheduled to be woken with CancelledError.
CancelPending(ts) ==
  [t \in DOMAIN ts |->
     IF ts[t].pc = "recv"
       THEN [ts[t] EXCEPT !.pc = "woken", !.err = "Cancelled"]
       ELSE ts[t]]

RECURSIVE SetToSeq(_)
SetToSeq(S) ==
  IF S = {} THEN <<>>
  ELSE LET x == CHOOSE y \in S : \A z \in S : y <= z
       IN  <<x>> \o SetToSeq(S \ {x})

\* Variant: stop() without loop.stop(): the socket is closed, the loop is
\* not told to stop.
StopBody_NoLoopStop(rdy) ==
  /\ loopStopping' = loopStopping
  /\ tasks' = tasks
  /\ ready' = rdy
  /\ sockClosed' = TRUE

\* Variant: stop() without zmqContext.destroy().
StopBody_NoDestroy(rdy) ==
  /\ loopStopping' = TRUE
  /\ tasks' = tasks
  /\ ready' = rdy
  /\ sockClosed' = sockClosed

\* lines 63-64: loop.stop() sets the loop's stop flag; zmqContext.destroy()
\* closes the socket (a second destroy does nothing).  rdy is the ready queue
\* the call leaves behind, before any cancellation it schedules.
StopBody(rdy) ==
  /\ loopStopping' = TRUE
  /\ IF sockClosed
       THEN /\ tasks' = tasks
            /\ ready' = rdy
       ELSE \E cancel \in BOOLEAN :
              IF cancel
                THEN /\ tasks' = CancelPending(tasks)
                     /\ ready' = rdy \o SetToSeq(Pending(tasks))
                ELSE /\ tasks' = tasks
                     /\ ready' = rdy
  /\ sockClosed' = TRUE

\* stop() called by the owner of the object while the loop is not running:
\* before start(), or after run_forever has returned.
StopDirect ==
  /\ mainPc \in {"idle", "exited"}
  /\ stopCalls < MaxStopCalls
  /\ stopCalls' = stopCalls + 1
  /\ StopBody(ready)
  /\ UNCHANGED <<mainPc, subscribed, connected, sigHandler, loopPc, ntodo,
                 current, sockQueue, arrived, signals, stdoutBroken, log>>

---------------------------------------------------------------------------
(* The event loop: run_forever *)

InLoop == mainPc = "running" /\ current = 0

\* The socket becomes readable while a receive is pending: the receive's
\* future gets the frame and the task's wake-up is queued.
RecvReady ==
  /\ InLoop /\ loopPc = "poll"
  /\ ~sockClosed
  /\ sockQueue # <<>>
  /\ \E t \in Pending(tasks) :
       LET r == RecvMultipart(sockQueue) IN
       /\ tasks' = [tasks EXCEPT ![t].pc = "woken", ![t].msg = r.frame.msg,
                                 ![t].idx = r.frame.idx]
       /\ sockQueue' = r.rest
       /\ ready' = Append(ready, t)
  /\ UNCHANGED <<mainPc, subscribed, connected, sockClosed, sigHandler,
                 loopStopping, loopPc, ntodo, current, arrived, signals,
                 stopCalls, stdoutBroken, log>>

\* The pending receive fails with a transport error (zmq.ZMQError).
TransportFault ==
  /\ InLoop /\ loopPc = "poll"
  /\ ~sockClosed
  /\ \E t \in Pending(tasks) :
       /\ tasks' = [tasks EXCEPT ![t].pc = "woken", ![t].err = "ZMQError",
                                 ![t].cause = "transport"]
       /\ ready' = Append(ready, t)
  /\ UNCHANGED <<mainPc, subscribed, connected, sockClosed, sigHandler,
                 loopStopping, loopPc, ntodo, current, sockQueue, arrived,
                 signals, stopCalls, stdoutBroken, log>>

\* Variant: stop() installed as a raw signal handler, which runs at once,
\* wherever the loop is.
SigInt_Raw ==
  /\ mainPc = "running"
  /\ sigHandler
  /\ signals < MaxSignals
  /\ signals' = signals + 1
  /\ loopStopping' = TRUE
  /\ sockClosed' = TRUE
  /\ UNCHANGED <<mainPc, subscribed, connected, sigHandler, loopPc, ntodo,
                 ready, current, tasks, sockQueue, arrived, stopCalls,
                 stdoutBroken, log>>

\* SIGINT: the loop queues the registered handler, self.stop.
SigInt ==
  /\ InLoop /\ loopPc = "poll"
  /\ sigHandler
  /\ signals < MaxSignals
  /\ signals' = signals + 1
  /\ ready' = Append(ready, 0)
  /\ UNCHANGED <<mainPc, subscribed, connected, sockClosed, sigHandler,
                 loopStopping, loopPc, ntodo, current, tasks, sockQueue,
                 arrived, stopCalls, stdoutBroken, log>>

\* The poll returns: the callbacks ready now form this iteration's batch.
BeginBatch ==
  /\ InLoop /\ loopPc = "poll"
  /\ ready # <<>> \/ loopStopping
  /\ ntodo' = Len(ready)
  /\ loopPc' = "run"
  /\ UNCHANGED <<mainPc, subscribed, connected, sockClosed, sigHandler,
                 loopStopping, ready, current, tasks, sockQueue, arrived,
                 signals, stopCalls, stdoutBroken, log>>

\* The batch is over: run_forever returns if the stop flag is set (and
\* clears it), else it starts the next iteration.
EndBatch ==
  /\ InLoop /\ loopPc = "run" /\ ntodo = 0
  /\ IF loopStopping
       THEN /\ mainPc' = "exited"
            /\ loopStopping' = FALSE
            /\ loopPc' = "poll"
       ELSE /\ loopPc' = "poll"
            /\ UNCHANGED <<mainPc, loopStopping>>
  /\ UNCHANGED <<subscribed, connected, sockClosed, sigHandler, ntodo, ready,
                 current, tasks, sockQueue, arrived, signals, stopCalls,
                 stdoutBroken, log>>

InBatch == InLoop /\ loopPc = "run" /\ ntodo > 0

\* The batch runs the stop callback.
RunStop ==
  /\ InBatch
  /\ Head(ready) = 0
  /\ StopBody(Tail(ready))
  /\ ntodo' = ntodo - 1
  /\ UNCHANGED <<mainPc, subscribed, connected, sigHandler, loopPc, current,
                 sockQueue, arrived, signals, stopCalls, stdoutBroken, log>>

---------------------------------------------------------------------------
(* ZMQHandler.handle: one task per frame *)

Fail(t, e) ==
  /\ tasks' = [tasks EXCEPT ![t].pc = "failed", ![t].err = e]
  /\ current' = 0

\* line 35, first step of a new task: recv_multipart().  On a closed socket
\* the call raises.  With a frame queued the receive may complete at once and
\* the await does not suspend; otherwise the task suspends on the future.
StartTask ==
  /\ InBatch
  /\ Head(ready) # 0
  /\ tasks[Head(ready)].pc = "new"
  /\ LET t == Head(ready) IN
       /\ ready' = Tail(ready)
       /\ ntodo' = ntodo - 1
       /\ IF sockClosed
            THEN /\ Fail(t, "ZMQError")
                 /\ UNCHANGED sockQueue
            ELSE \E immediate \in BOOLEAN :
                   IF immediate /\ sockQueue # <<>>
                     THEN LET r == RecvMultipart(sockQueue) IN
                          /\ tasks' = [tasks EXCEPT ![t].pc = "l36",
                                                    ![t].msg = r.frame.msg,
                                                    ![t].idx = r.frame.idx]
                          /\ sockQueue' = r.rest
                          /\ current' = t
                     ELSE /\ tasks' = [tasks EXCEPT ![t].pc = "recv"]
                          /\ current' = 0
                          /\ UNCHANGED sockQueue
  /\ UNCHANGED <<mainPc, subscribed, connected, sockClosed, sigHandler,
                 loopStopping, loopPc, arrived, signals, stopCalls,
                 stdoutBroken, log>>

\* line 35, the await returns: with the frame, or by raising what the
\* future holds.
WakeTask ==
  /\ InBatch
  /\ Head(ready) # 0
  /\ tasks[Head(ready)].pc = "woken"
  /\ LET t == Head(ready) IN
       /\ ready' = Tail(ready)
       /\ ntodo' = ntodo - 1
       /\ IF tasks[t].err # "none"
            THEN Fail(t, tasks[t].err)
            ELSE /\ tasks' = [tasks EXCEPT ![t].pc = "l36"]
                 /\ current' = t
  /\ UNCHANGED <<mainPc, subscribed, connected, sockClosed, sigHandler,
                 loopStopping, loopPc, sockQueue, arrived, signals, stopCalls,
                 stdoutBroken, log>>

Running(pc) == mainPc = "running" /\ current # 0 /\ tasks[current].pc = pc

\* lines 36-41: msg[0], msg[1] (IndexError on a one-part frame), sequence
Decode ==
  /\ Running("l36")
  /\ LET t == current
         msg == tasks[t].msg
     IN  IF Len(msg) < 2
           THEN Fail(t, "IndexError")
           ELSE /\ tasks' = [tasks EXCEPT ![t].pc = "l42",
                                          ![t].topic = msg[1],
                                          ![t].body = msg[2],
                                          ![t].sequence = SequenceOf(msg)]
                /\ UNCHANGED current
  /\ UNCHANGED <<mainPc, subscribed, connected, sockClosed, sigHandler,
                 loopStopping, loopPc, ntodo, ready, sockQueue, arrived,
                 signals, stopCalls, stdoutBroken, log>>

\* A printed line, with the frame it was printed for and whether stop() had
\* already been called.
Line(t, text) ==
  [idx |-> tasks[t].idx, msg |-> tasks[t].msg, text |-> text,
   afterStop |-> sockClosed]

\* lines 42-43, 45-46, 48-49, 51-52: the first print of the matching branch;
\* no branch matches an unrecognized topic.  print raises on a broken stdout.
PrintHead ==
  /\ Running("l42")
  /\ LET t == current IN
       IF ~Recognized(tasks[t].topic)
         THEN /\ tasks' = [tasks EXCEPT ![t].pc = "l55"]
              /\ UNCHANGED <<current, log>>
         ELSE IF stdoutBroken
           THEN /\ Fail(t, "OSError")
                /\ UNCHANGED log
           ELSE /\ log' = Append(log,
                     Line(t, HeadLine(tasks[t].topic, tasks[t].sequence)))
                /\ tasks' = [tasks EXCEPT ![t].pc = "body"]
                /\ UNCHANGED current
  /\ UNCHANGED <<mainPc, subscribed, connected, sockClosed, sigHandler,
                 loopStopping, loopPc, ntodo, ready, sockQueue, arrived,
                 signals, stopCalls, stdoutBroken>>

\* lines 44, 47, 50, 53: the second print of the branch
PrintBody ==
  /\ Running("body")
  /\ LET t == current IN
       IF stdoutBroken
         THEN /\ Fail(t, "OSError")
              /\ UNCHANGED log
         ELSE /\ log' = Append(log,
                   Line(t, ReprBytes(Hexlify(Payload(tasks[t].topic,
                                                     tasks[t].body)))))
              /\ tasks' = [tasks EXCEPT ![t].pc = "l55"]
              /\ UNCHANGED current
  /\ UNCHANGED <<mainPc, subscribed, connected, sockClosed, sigHandler,
                 loopStopping, loopPc, ntodo, ready, sockQueue, arrived,
                 signals, stopCalls, stdoutBroken>>

\* Variant: the successor scheduled twice.
Reschedule_Twice ==
  /\ Running("l55")
  /\ tasks' = Append(Append([tasks EXCEPT ![current].pc = "done"], NewTask),
                     NewTask)
  /\ ready' = ready \o <<Len(tasks) + 1, Len(tasks) + 2>>
  /\ current' = 0
  /\ UNCHANGED <<mainPc, subscribed, connected, sockClosed, sigHandler,
                 loopStopping, loopPc, ntodo, sockQueue, arrived, signals,
                 stopCalls, stdoutBroken, log>>

\* line 55: ensure_future(self.handle()) creates the next task and queues its
\* first step; this task ends.
Reschedule ==
  /\ Running("l55")
  /\ tasks' = Append([tasks EXCEPT ![current].pc = "done"], NewTask)
  /\ ready' = Append(ready, Len(tasks) + 1)
  /\ current' = 0
  /\ UNCHANGED <<mainPc, subscribed, connected, sockClosed, sigHandler,
                 loopStopping, loopPc, ntodo, sockQueue, arrived, signals,
                 stopCalls, stdoutBroken, log>>

---------------------------------------------------------------------------
Next ==
  \/ Subscribe
  \/ Connect
  \/ Arrive
  \/ StdoutCloses
  \/ Start
  \/ StopDirect
  \/ RecvReady
  \/ TransportFault
  \/ SigInt
  \/ BeginBatch
  \/ EndBatch
  \/ RunStop
  \/ StartTask
  \/ WakeTask
  \/ Decode
  \/ PrintHead
  \/ PrintBody
  \/ Reschedule

Spec == Init /\ [][Next]_vars

\* The steps the event loop takes by itself.  A running loop keeps taking
\* them: run_forever does not pause between callbacks.
LoopStep ==
  \/ BeginBatch
  \/ EndBatch
  \/ RunStop
  \/ StartTask
  \/ WakeTask
  \/ Decode
  \/ PrintHead
  \/ PrintBody
  \/ Reschedule

FairSpec == Spec /\ WF_vars(LoopStep)

---------------------------------------------------------------------------
(* One frame through handle(): the dispatcher is started, one frame of a    *)
(* wider set is queued on the socket, and the loop runs.                    *)

ByteSamples == {0, 1, 255}

SeqParts ==
  {<<a, b, c, d>> : a \in ByteSamples, b \in ByteSamples,
                    c \in ByteSamples, d \in ByteSamples}
    \cup {<<>>, <<1, 2, 3>>, <<1, 2, 3, 4, 5>>}

Bodies ==
  {<<>>, <<1, 2, 3, 4>>, <<255, 16, 0, 171, 9>>, Ramp(79), Ramp(80), Ramp(84)}

DecodeTopics == Topics \cup {B_hashtxx}

DecodeFrames ==
  {<<t>> : t \in DecodeTopics}
    \cup {<<t, b>> : t \in DecodeTopics, b \in Bodies}
    \cup {<<t, b, q>> : t \in DecodeTopics, b \in Bodies, q \in SeqParts}
    \cup {<<t, b, <<0>>, q>> : t \in DecodeTopics, b \in {<<1, 2, 3, 4>>},
                              q \in {<<7, 0, 0, 0>>, <<1, 2, 3>>}}

InitDecode ==
  /\ mainPc = "running"
  /\ subscribed = SubscribeOrder
  /\ connected = TRUE
  /\ sockClosed = FALSE
  /\ sigHandler = TRUE
  /\ loopStopping = FALSE
  /\ loopPc = "poll"
  /\ ntodo = 0
  /\ ready = <<1>>
  /\ current = 0
  /\ tasks = <<NewTask>>
  /\ \E f \in DecodeFrames :
       /\ Delivered(f, subscribed)
       /\ sockQueue = <<[idx |-> 1, msg |-> f]>>
  /\ arrived = 1
  /\ signals = 0
  /\ stopCalls = 0
  /\ stdoutBroken = FALSE
  /\ log = <<>>

NextDecode ==
  \/ RecvReady
  \/ BeginBatch
  \/ EndBatch
  \/ StartTask
  \/ WakeTask
  \/ Decode
  \/ PrintHead
  \/ PrintBody
  \/ Reschedule

SpecDecode == InitDecode /\ [][NextDecode]_vars

---------------------------------------------------------------------------
(* Reading the printed lines back *)

IsBodyLine(l) == l.text[1] = "b'"

IsHeadLine(l) == ~IsBodyLine(l)

\* what stands between the first and the last chunk of a line
Inner(l) == SubSeq(l.text, 2, Len(l.text) - 1)

LastPart(msg) == msg[Len(msg)]

InHandle(t) == tasks[t].pc \in {"l36", "l42", "body", "l55"}

---------------------------------------------------------------------------
(* C1: the printed lines follow the frames' arrival order: frames are taken  *)
(* from the socket in arrival order, a frame's lines are never printed       *)
(* before those of an earlier frame, the two lines of one frame are          *)
(* adjacent (header first), and at most one handle() is between its receive  *)
(* and its end at any time.                                                  *)
C1_ArrivalOrder ==
  /\ \A i, j \in DOMAIN log : i < j => log[i].idx <= log[j].idx
  /\ \A i, j \in DOMAIN log :
       (i < j /\ log[i].idx = log[j].idx) =>
         j = i + 1 /\ IsHeadLine(log[i]) /\ IsBodyLine(log[j])
  /\ \A t, u \in DOMAIN tasks :
       (t < u /\ tasks[u].idx > 0) => (0 < tasks[t].idx /\ tasks[t].idx < tasks[u].idx)
  /\ Cardinality({t \in DOMAIN tasks : InHandle(t)}) <= 1

\* Two frames have been dispatched, one after the other.
C1_Witness ==
  \E i, j \in DOMAIN log : log[i].idx = 1 /\ log[j].idx = 2 /\ IsBodyLine(log[j])

(* C2: a frame with fewer than 2 parts does not end the loop: the task that  *)
(* received it does not fail, prints nothing for it, and once it has         *)
(* finished a successor task exists.                                         *)
C2_ShortFrameSkipped ==
  \A t \in DOMAIN tasks :
    (tasks[t].idx > 0 /\ Len(tasks[t].msg) < 2) =>
      /\ tasks[t].pc # "failed"
      /\ tasks[t].pc = "done" => t < Len(tasks)
      /\ \A i \in DOMAIN log : log[i].idx # tasks[t].idx

(* C3: a print that raises while a frame is dispatched does not end the      *)
(* loop: no task ends failed with the print's error.                         *)
C3_PrintFailureCaught ==
  \A t \in DOMAIN tasks :
    tasks[t].err = "OSError" => tasks[t].pc # "failed"

(* C4: a frame whose first part is not one of the four topics prints         *)
(* nothing, raises nothing and is followed by the next receive; every line   *)
(* printed belongs to a frame with one of the four topics.                   *)
C4_UnrecognizedDropped ==
  /\ \A t \in DOMAIN tasks :
       (tasks[t].idx > 0 /\ ~(tasks[t].msg[1] \in Topics)) =>
         /\ tasks[t].pc # "failed"
         /\ tasks[t].pc = "done" => t < Len(tasks)
         /\ \A i \in DOMAIN log : log[i].idx # tasks[t].idx
  /\ \A i \in DOMAIN log : log[i].msg[1] \in Topics


(* C5: stop() is idempotent and harmless before start(): while the           *)
(* dispatcher is constructed and not started its channel is open and its     *)
(* loop is not marked to stop, whatever stop() calls were made, so that a    *)
(* later start() receives on an open channel; and when run_forever has       *)
(* returned, the channel is closed, after one stop() or several.             *)
C5_IdempotentStop ==
  /\ mainPc = "idle" => ~sockClosed /\ ~loopStopping
  /\ mainPc = "exited" => sockClosed

\* The frames whose lines were printed after stop() had been called.
DispatchedAfterStop == {log[i].idx : i \in {j \in DOMAIN log : log[j].afterStop}}

C6_Safety ==
  /\ Cardinality(DispatchedAfterStop) <= 1
  /\ mainPc = "exited" => sockClosed
  /\ \A t \in DOMAIN tasks :
       (tasks[t].idx \in DispatchedAfterStop) => t = Len(tasks) \/ tasks[t + 1].idx = 0

C6_NoNewReceive ==
  sockClosed =>
    /\ sockQueue' = sockQueue
    /\ Pending(tasks') \subseteq Pending(tasks)
    /\ \A t \in DOMAIN tasks : tasks'[t].idx = tasks[t].idx

C6_StoppedIsSilent == mainPc = "exited" => log' = log /\ mainPc' = "exited"

\* stop() has been called and run_forever has not returned yet.
Stopping == mainPc = "running" /\ sockClosed

\* What the stopping loop has left to do, as a triple ordered
\* lexicographically: the poll before the last batch, the callbacks left in
\* the batch, the statements left in the running handle().
StmtsLeft ==
  IF current = 0 THEN 0
  ELSE CASE tasks[current].pc = "l36"  -> 4
         [] tasks[current].pc = "l42"  -> 3
         [] tasks[current].pc = "body" -> 2
         [] tasks[current].pc = "l55"  -> 1
         [] OTHER -> 0

Rank == <<IF loopPc = "poll" THEN 1 ELSE 0, ntodo, StmtsLeft>>

LexLess(a, b) ==
  \/ a[1] < b[1]
  \/ a[1] = b[1] /\ a[2] < b[2]
  \/ a[1] = b[1] /\ a[2] = b[2] /\ a[3] < b[3]

\* Every step of a stopping loop returns from run_forever or leaves the loop
\* stopping with no more left to do, and a step of the loop itself leaves
\* strictly less.
C6_Progress ==
  Stopping =>
    /\ mainPc' = "exited" \/ (Stopping' /\ (Rank' = Rank \/ LexLess(Rank', Rank)))
    /\ LoopStep => (mainPc' = "exited" \/ LexLess(Rank', Rank))

C6_NeverStuck == Stopping => (loopStopping /\ ENABLED LoopStep)

(* C6: once stop() has been called, at most one frame (the one already       *)
(* received) is still printed, no frame is taken from the socket and no      *)
(* receive becomes pending; the stopping loop can always take a step and     *)
(* each of its steps brings the return of run_forever nearer, so that it     *)
(* returns after finitely many steps; after that the channel is closed and   *)
(* nothing is printed any more.                                              *)
C6_StopThenStopped ==
  /\ []C6_Safety
  /\ []C6_NeverStuck
  /\ [][C6_NoNewReceive]_vars
  /\ [][C6_Progress]_vars
  /\ [][C6_StoppedIsSilent]_vars

\* stop() ran in the loop with a frame in hand: the frame was printed after
\* the stop, and run_forever has returned.
C6_Witness ==
  /\ mainPc = "exited"
  /\ signals > 0
  /\ DispatchedAfterStop # {}

(* C7: a transport error raised by the receive ends the loop: whenever a     *)
(* task has failed with the receive's error on an open channel, the loop has *)
(* been told to stop or has returned, and the channel is closed.             *)
C7_TransportErrorStops ==
  \A t \in DOMAIN tasks :
    (tasks[t].pc = "failed" /\ tasks[t].err = "ZMQError" /\ tasks[t].cause = "transport") =>
      /\ loopStopping \/ mainPc = "exited"
      /\ sockClosed


---------------------------------------------------------------------------
(* Reading numbers and bytes back from the printed text *)

DigitVal(c) == CHOOSE v \in 0..9 : Digits[v + 1] = c

IsDigit(c) == \E v \in 0..9 : Digits[v + 1] = c

\* acc * 10 + d on a little-endian number of five bytes (the fifth holds
\* what does not fit in 32 bits)
MulAdd(acc, d) ==
  LET c1 == acc[1] * 10 + d
      c2 == acc[2] * 10 + (c1 \div 256)
      c3 == acc[3] * 10 + (c2 \div 256)
      c4 == acc[4] * 10 + (c3 \div 256)
      c5 == acc[5] * 10 + (c4 \div 256)
  IN  <<c1 % 256, c2 % 256, c3 % 256, c4 % 256, c5>>

RECURSIVE DecToLE(_)
\* the number a decimal text denotes, as little-endian bytes
DecToLE(ds) ==
  IF ds = <<>> THEN <<0, 0, 0, 0, 0>>
  ELSE MulAdd(DecToLE(SubSeq(ds, 1, Len(ds) - 1)), DigitVal(ds[Len(ds)]))

\* a decimal numeral as str() writes it: digits only, no leading zero
IsNumeral(ds) ==
  /\ Len(ds) >= 1
  /\ \A i \in DOMAIN ds : IsDigit(ds[i])
  /\ Len(ds) > 1 => ds[1] # "0"

HexVal(c) == CHOOSE v \in 0..15 : HexChars[v + 1] = c

Unhexlify(h) ==
  [i \in 1..(Len(h) \div 2) |-> 16 * HexVal(h[2 * i - 1]) + HexVal(h[2 * i])]

(* C8: every header line printed for a frame whose last part is 4 bytes long *)
(* carries, as a decimal numeral, the number whose little-endian unsigned    *)
(* 32-bit encoding is that last part.                                        *)
C8_SequenceIsLittleEndian ==
  \A i \in DOMAIN log :
    (IsHeadLine(log[i]) /\ Len(LastPart(log[i].msg)) = 4) =>
      /\ IsNumeral(Inner(log[i]))
      /\ DecToLE(Inner(log[i])) = LastPart(log[i].msg) \o <<0>>

\* A header was printed for a two-part frame whose body is 4 bytes long.
C8_Witness ==
  \E i \in DOMAIN log :
    /\ IsHeadLine(log[i])
    /\ Len(log[i].msg) = 2
    /\ Len(log[i].msg[2]) = 4

(* C9: every header line printed for a frame whose last part is not 4 bytes  *)
(* long carries the text Unknown, which is no numeral.                       *)
C9_SequenceUnknown ==
  \A i \in DOMAIN log :
    (IsHeadLine(log[i]) /\ Len(LastPart(log[i].msg)) # 4) =>
      /\ Inner(log[i]) = <<"Unknown">>
      /\ ~IsNumeral(Inner(log[i]))

\* A header was printed for a frame whose last part is 5 bytes long.
C9_Witness ==
  \E i \in DOMAIN log :
    IsHeadLine(log[i]) /\ Len(LastPart(log[i].msg)) = 5

Min(a, b) == IF a < b THEN a ELSE b

(* C10: the bytes printed for a rawblock frame are the first                 *)
(* min(80, len(body)) bytes of its second part, and handling a rawblock      *)
(* frame with a shorter body does not fail; the bytes printed for the other  *)
(* three topics are the second part, whole.                                  *)
C10_Payload ==
  /\ \A i \in DOMAIN log :
       IsBodyLine(log[i]) =>
         LET body == log[i].msg[2]
             out == Unhexlify(Inner(log[i]))
         IN  /\ Len(Inner(log[i])) % 2 = 0
             /\ IF log[i].msg[1] = B_rawblock
                  THEN /\ Len(out) = Min(80, Len(body))
                       /\ \A k \in 1..Len(out) : out[k] = body[k]
                  ELSE out = body
  /\ \A t \in DOMAIN tasks :
       (tasks[t].idx > 0 /\ Len(tasks[t].msg) >= 2 /\ tasks[t].msg[1] = B_rawblock) =>
         tasks[t].pc # "failed"

\* A rawblock frame with a body shorter than 80 bytes has been printed.
C10_Witness ==
  \E i \in DOMAIN log :
    /\ IsBodyLine(log[i])
    /\ log[i].msg[1] = B_rawblock
    /\ Len(log[i].msg[2]) = 79


---------------------------------------------------------------------------
\* The tasks that have not ended: created, waiting on the receive, woken, or
\* between the receive and line 55.
Live(t) == tasks[t].pc \notin {"done", "failed"}

HeadLinesFor(k) == {i \in DOMAIN log : log[i].idx = k /\ IsHeadLine(log[i])}

BodyLinesFor(k) == {i \in DOMAIN log : log[i].idx = k /\ IsBodyLine(log[i])}

TransportFailed ==
  \E t \in DOMAIN tasks : tasks[t].cause = "transport"

(* C11: with no stop and no transport error, a frame with one of the four    *)
(* topics is dispatched exactly once: no frame is printed twice; a task that *)
(* has ended after receiving such a frame has printed its header and its     *)
(* body once each; and a frame waiting on the socket of a running            *)
(* dispatcher always has a task that will receive it.                        *)
C11_ExactlyOnce ==
  /\ \A k \in 1..arrived :
       Cardinality(HeadLinesFor(k)) <= 1 /\ Cardinality(BodyLinesFor(k)) <= 1
  /\ \A t \in DOMAIN tasks :
       (tasks[t].idx > 0 /\ tasks[t].msg[1] \in Topics /\ ~Live(t)) =>
         /\ Cardinality(HeadLinesFor(tasks[t].idx)) = 1
         /\ Cardinality(BodyLinesFor(tasks[t].idx)) = 1
  /\ (mainPc = "running" /\ ~sockClosed /\ ~TransportFailed /\ sockQueue # <<>>) =>
       \E t \in DOMAIN tasks : Live(t)


(* C12: a SIGINT delivered to the running loop leads to the return of        *)
(* run_forever, whatever the handle() task is doing (waiting on the receive, *)
(* woken with a frame, ended by an exception), provided the loop keeps       *)
(* taking its steps.                                                         *)
C12_GracefulStopIsLive ==
  (mainPc = "running" /\ signals > 0) ~> (mainPc = "exited")

\* run_forever has returned after a SIGINT that found the receive pending:
\* the task is still waiting on it (or woken by the cancellation).
C12_Witness ==
  /\ mainPc = "exited"
  /\ signals > 0
  /\ stopCalls = 0
  /\ \E t \in DOMAIN tasks : tasks[t].pc \in {"recv", "woken"} /\ tasks[t].idx = 0


TaskEntries(rdy) == {i \in DOMAIN rdy : rdy[i] # 0}

(* C13: at most one handle() task has not ended, so at most one receive is   *)
(* pending or about to be issued on the socket; no task exists before        *)
(* start(); and a task has a successor only when it has run to its end       *)
(* (line 55), so every task but the newest is done.                          *)
C13_SingleReader ==
  /\ Cardinality({t \in DOMAIN tasks : Live(t)}) <= 1
  /\ Cardinality(Pending(tasks)) <= 1
  /\ Cardinality(TaskEntries(ready)) <= 1
  /\ mainPc \in {"init", "idle"} => tasks = <<>>
  /\ \A t \in DOMAIN tasks : t < Len(tasks) => tasks[t].pc = "done"

\* A handle() has dispatched its frame and its successor is waiting on the
\* receive.
C13_Witness ==
  /\ Len(tasks) >= 2
  /\ tasks[Len(tasks)].pc = "recv"
  /\ log # <<>>


\* A task that is between its receive and line 55 is the callback the loop
\* is running: none is suspended there.
C14_NoneSuspendedInHandle ==
  \A t \in DOMAIN tasks : InHandle(t) => current = t

\* A step in which stop() takes effect (the stop flag is raised or the
\* socket is closed) starts with no handle() between its receive and line 55.
C14_StopOutsideHandle ==
  ((loopStopping' /\ ~loopStopping) \/ (sockClosed' /\ ~sockClosed)) =>
    /\ current = 0
    /\ \A t \in DOMAIN tasks : ~InHandle(t)
    /\ log' = log

(* C14: handle() has no suspension point between the end of its receive and  *)
(* line 55, so stop() never runs in the middle of a frame's decode and       *)
(* dispatch: it runs while the receive is pending, or between the receive's  *)
(* completion and the task's wake-up, or after the task has ended.           *)
C14_DispatchAtomic ==
  /\ []C14_NoneSuspendedInHandle
  /\ [][C14_StopOutsideHandle]_vars

\* stop() has run between the completion of a receive and the wake-up of the
\* task that holds the frame.
C14_Witness ==
  /\ sockClosed
  /\ mainPc = "running"
  /\ \E t \in DOMAIN tasks : tasks[t].pc = "woken" /\ tasks[t].idx > 0


(* C15, as stated: while the dispatcher is constructed and not started, no   *)
(* connection has been made and no receive has been issued.                  *)
C15_IdleNoSocketActivity ==
  mainPc = "idle" => ~connected /\ tasks = <<>>

(* C15, amended: while the dispatcher is constructed and not started, the    *)
(* socket is connected (the constructor connects it) and frames may queue on *)
(* it, but no handle() task exists, no receive has been issued, no frame has *)
(* been taken from the socket and nothing has been printed.                  *)
C15_IdleNoReceive ==
  /\ mainPc = "idle" => connected
  /\ mainPc \in {"init", "idle"} =>
       /\ tasks = <<>>
       /\ ready = <<>>
       /\ log = <<>>
       /\ Len(sockQueue) = arrived
       /\ ~sigHandler

\* A frame has reached the socket of a dispatcher that was not started.
C15_Witness ==
  /\ mainPc = "idle"
  /\ ~sockClosed
  /\ arrived > 0

C16_AllFour(subs) ==
  /\ Len(subs) = 4
  /\ {subs[i] : i \in DOMAIN subs} = {B_hashblock, B_hashtx, B_rawblock, B_rawtx}

C16_FiltersSet ==
  (connected \/ tasks # <<>>) => C16_AllFour(subscribed)

C16_FiltersKept == connected => subscribed' = subscribed

(* C16: the four topic filters are on the socket when it is connected and    *)
(* when the first handle() task is created, and from the connect on no step  *)
(* (of handle(), start(), stop() or the loop) changes them.                  *)
C16_FiltersFixed ==
  /\ []C16_FiltersSet
  /\ [][C16_FiltersKept]_vars

\* start(), handle() and stop() have all run: a frame was printed and
\* run_forever has returned after a SIGINT, with the four filters in place.
C16_Witness ==
  /\ mainPc = "exited"
  /\ signals > 0
  /\ log # <<>>
  /\ C16_AllFour(subscribed)

=============================================================================
